---- MODULE Spec2Model ----
(***************************************************************************)
(* Model of src/streamlit_app.py: the chunked STRF (shortest remaining     *)
(* time first) multi-CPU scheduling simulation with quantum-gated          *)
(* dispatch.                                                               *)
(*                                                                         *)
(* Times and durations are exact multiples of one tick.  One tick is half  *)
(* of the completion tolerance 0.001 of line 107, so Eps = 2 ticks and a   *)
(* remainder of one tick is a positive amount of work that is smaller      *)
(* than the tolerance.  Jobs 'J1'..'Jn' are 1..n, CPUs 'CPU1'..'CPUn' are  *)
(* 1..n, and Python's None in current_jobs is 0.  Python dicts keep        *)
(* insertion order, so iterating a dict keyed by job visits J1, J2, ...    *)
(***************************************************************************)
EXTENDS Integers, Sequences, FiniteSets, TLC

\* ---- bounds of the explored inputs ----
MaxJobs == 2
MaxCpus == 2
MaxChunkUnit == 2
MaxQuantum == 2
MaxBurst == 3
MaxTiny == 1
MaxArrival == 3

\* ---- program constants, in ticks ----
Eps == 2
RoundUnit == 200
None == 0

VARIABLES num_jobs, num_cpus, chunk_unit, quantum_time, processes,
          remaining_time, start_time, end_time, job_chunks,
          chunk_job, chunks, remaining,
          busy_until, current_jobs, busy_jobs,
          gantt_data, queue_snapshots, current_time, jobs_completed,
          next_scheduling_time, available_cpus, available_jobs, pc

vars == <<num_jobs, num_cpus, chunk_unit, quantum_time, processes,
          remaining_time, start_time, end_time, job_chunks,
          chunk_job, chunks, remaining,
          busy_until, current_jobs, busy_jobs,
          gantt_data, queue_snapshots, current_time, jobs_completed,
          next_scheduling_time, available_cpus, available_jobs, pc>>

inputs == <<num_jobs, num_cpus, chunk_unit, quantum_time, processes>>

\* ---- input domains ----
ChunkUnits == {Eps * k : k \in 1..MaxChunkUnit}
QuantumTimes == {Eps * k : k \in 1..MaxQuantum}
BurstTimes == {Eps * k : k \in 1..MaxBurst} \cup {Eps * k + 1 : k \in 1..MaxTiny}
ArrivalTimes == 0..MaxArrival
\* values the number inputs also accept (no min_value is given for them)
ChunkUnitsAny == ChunkUnits \cup {0 - Eps, 0}
BurstTimesAny == BurstTimes \cup {0}
ArrivalTimesAny == ArrivalTimes \cup {0 - 1}
MaxChunks == MaxBurst + 2

Jobs == 1..num_jobs
Cpus == 1..num_cpus
cpu_names == [i \in 1..num_cpus |-> i]
arrival_time == [j \in Jobs |-> processes[j].arrival_time]
burst_time == [j \in Jobs |-> processes[j].burst_time]

\* ---- helpers ----
Min(a, b) == IF a <= b THEN a ELSE b

SetMin(S) == CHOOSE x \in S : \A y \in S : x <= y

RECURSIVE SeqSum(_)
SeqSum(s) == IF s = <<>> THEN 0 ELSE Head(s) + SeqSum(Tail(s))

Abs(x) == IF x < 0 THEN 0 - x ELSE x

\* round(x, 1): the nearest multiple of 0.1, a tie going to the even multiple
Round1(x) ==
    LET q == x \div RoundUnit
        r == x % RoundUnit
        half == RoundUnit \div 2
    IN  IF r < half THEN RoundUnit * q
        ELSE IF r > half THEN RoundUnit * (q + 1)
        ELSE IF q % 2 = 0 THEN RoundUnit * q ELSE RoundUnit * (q + 1)

\* key=lambda job_id: (remaining_time[job_id], arrival_time[job_id]), compared as tuples
KeyLess(a, b) ==
    \/ remaining_time[a] < remaining_time[b]
    \/ remaining_time[a] = remaining_time[b] /\ arrival_time[a] < arrival_time[b]

\* mutant of InsertSorted: x goes before the elements with an equal key (not stable)
RECURSIVE InsertSortedBeforeEqual(_, _)
InsertSortedBeforeEqual(x, s) ==
    IF s = <<>> THEN <<x>>
    ELSE IF ~KeyLess(Head(s), x) THEN <<x>> \o s
    ELSE <<Head(s)>> \o InsertSortedBeforeEqual(x, Tail(s))

\* one insertion of a stable sort: x goes after every element whose key is not greater
RECURSIVE InsertSorted(_, _)
InsertSorted(x, s) ==
    IF s = <<>> THEN <<x>>
    ELSE IF KeyLess(x, Head(s)) THEN <<x>> \o s
    ELSE <<Head(s)>> \o InsertSorted(x, Tail(s))

RECURSIVE StrfSortFrom(_, _)
StrfSortFrom(s, acc) ==
    IF s = <<>> THEN acc ELSE StrfSortFrom(Tail(s), InsertSorted(Head(s), acc))

\* mutant of StrfSort: the list is left in dict order
StrfSortOmitted(s) == s

\* sorted(...) / list.sort(...) with the STRF key: a stable sort
StrfSort(s) == StrfSortFrom(s, <<>>)

\* the job ids in dict (insertion) order
job_ids == [i \in 1..num_jobs |-> i]

\* mutant of NextChunk: every chunk is a full chunk_unit
NextChunkFull(unit, rem) == unit

\* min(chunk_unit, remaining)
NextChunk(unit, rem) == Min(unit, rem)

\* capture_queue_state(time, available_jobs): the new value of queue_snapshots
CaptureQueueState(time, jobs) ==
    LET active == SelectSeq(jobs, LAMBDA j : remaining_time[j] > 0)
        queue == StrfSort(active)
        job_info == [i \in 1..Len(queue) |-> <<queue[i], Round1(remaining_time[queue[i]])>>]
    IN  IF job_info # <<>> THEN Append(queue_snapshots, <<time, job_info>>)
        ELSE queue_snapshots

\* ---- initial state: the inputs are collected, the button is not yet pressed ----
InitWith(CU, AT, BT) ==
    /\ num_jobs \in 1..MaxJobs
    /\ num_cpus \in 1..MaxCpus
    /\ chunk_unit \in CU
    /\ quantum_time \in QuantumTimes
    /\ processes \in UNION {[1..n -> [arrival_time : AT, burst_time : BT]] : n \in 1..MaxJobs}
    /\ Len(processes) = num_jobs
    /\ remaining_time = <<>>
    /\ start_time = <<>>
    /\ end_time = <<>>
    /\ job_chunks = <<>>
    /\ chunk_job = 0
    /\ chunks = <<>>
    /\ remaining = 0
    /\ busy_until = <<>>
    /\ current_jobs = <<>>
    /\ busy_jobs = {}
    /\ gantt_data = <<>>
    /\ queue_snapshots = <<>>
    /\ current_time = 0
    /\ jobs_completed = 0
    /\ next_scheduling_time = 0
    /\ available_cpus = <<>>
    /\ available_jobs = <<>>
    /\ pc = "input"

Init == InitWith(ChunkUnits, ArrivalTimes, BurstTimes)

InitAny == InitWith(ChunkUnitsAny, ArrivalTimesAny, BurstTimesAny)

\* ---- "Run Simulation": set up the job state and enter the chunking loop ----
RunSimulation ==
    /\ pc = "input"
    /\ remaining_time' = burst_time
    /\ start_time' = <<>>
    /\ end_time' = <<>>
    /\ job_chunks' = <<>>
    /\ chunk_job' = 1
    /\ chunks' = <<>>
    /\ remaining' = burst_time[1]
    /\ pc' = "chunk"
    /\ UNCHANGED <<inputs, busy_until, current_jobs, busy_jobs, gantt_data,
                   queue_snapshots, current_time, jobs_completed,
                   next_scheduling_time, available_cpus, available_jobs>>

\* one iteration of "while remaining > 0"
ChunkStep ==
    /\ pc = "chunk"
    /\ remaining > 0
    /\ Len(chunks) < MaxChunks
    /\ LET chunk == NextChunk(chunk_unit, remaining)
       IN  /\ chunks' = Append(chunks, chunk)
           /\ remaining' = remaining - chunk
    /\ UNCHANGED <<inputs, remaining_time, start_time, end_time, job_chunks, chunk_job,
                   busy_until, current_jobs, busy_jobs, gantt_data, queue_snapshots,
                   current_time, jobs_completed, next_scheduling_time,
                   available_cpus, available_jobs, pc>>

\* the while loop ends: store the job's chunks, go to the next job or leave the for loop
ChunkStore ==
    /\ pc = "chunk"
    /\ remaining <= 0
    /\ job_chunks' = job_chunks @@ (chunk_job :> chunks)
    /\ IF chunk_job < num_jobs
       THEN /\ chunk_job' = chunk_job + 1
            /\ chunks' = <<>>
            /\ remaining' = burst_time[chunk_job + 1]
            /\ pc' = "chunk"
       ELSE /\ UNCHANGED <<chunk_job, chunks, remaining>>
            /\ pc' = "setup"
    /\ UNCHANGED <<inputs, remaining_time, start_time, end_time,
                   busy_until, current_jobs, busy_jobs, gantt_data, queue_snapshots,
                   current_time, jobs_completed, next_scheduling_time,
                   available_cpus, available_jobs>>

\* CPU setup and simulation state
SetupSimulation ==
    /\ pc = "setup"
    /\ busy_until' = [c \in Cpus |-> 0]
    /\ current_jobs' = [c \in Cpus |-> None]
    /\ busy_jobs' = {}
    /\ gantt_data' = <<>>
    /\ queue_snapshots' = <<>>
    /\ current_time' = 0
    /\ jobs_completed' = 0
    /\ next_scheduling_time' = 0
    /\ pc' = "initial_queue"
    /\ UNCHANGED <<inputs, remaining_time, start_time, end_time, job_chunks,
                   chunk_job, chunks, remaining, available_cpus, available_jobs>>

\* initial_available_jobs and its capture
InitialQueue ==
    /\ pc = "initial_queue"
    /\ LET initial_available_jobs == SelectSeq(job_ids, LAMBDA j : arrival_time[j] <= current_time)
       IN  queue_snapshots' = CaptureQueueState(current_time, initial_available_jobs)
    /\ pc' = "loop"
    /\ UNCHANGED <<inputs, remaining_time, start_time, end_time, job_chunks,
                   chunk_job, chunks, remaining, busy_until, current_jobs, busy_jobs,
                   gantt_data, current_time, jobs_completed, next_scheduling_time,
                   available_cpus, available_jobs>>

\* while jobs_completed < len(processes)
LoopTest ==
    /\ pc = "loop"
    /\ pc' = IF jobs_completed < Len(processes) THEN "release" ELSE "done"
    /\ UNCHANGED <<inputs, remaining_time, start_time, end_time, job_chunks,
                   chunk_job, chunks, remaining, busy_until, current_jobs, busy_jobs,
                   gantt_data, queue_snapshots, current_time, jobs_completed,
                   next_scheduling_time, available_cpus, available_jobs>>

\* mutant of Completed: a processor is released whether or not its chunk has ended
CompletedEarly == {c \in Cpus : current_jobs[c] # None}

\* the cpus the release loop clears
Completed == {c \in Cpus : busy_until[c] <= current_time /\ current_jobs[c] # None}

\* check if CPUs have completed jobs
ReleaseCompleted ==
    /\ pc = "release"
    /\ busy_jobs' = busy_jobs \ {current_jobs[c] : c \in Completed}
    /\ current_jobs' = [c \in Cpus |-> IF c \in Completed THEN None ELSE current_jobs[c]]
    /\ pc' = "decide"
    /\ UNCHANGED <<inputs, remaining_time, start_time, end_time, job_chunks,
                   chunk_job, chunks, remaining, busy_until,
                   gantt_data, queue_snapshots, current_time, jobs_completed,
                   next_scheduling_time, available_cpus, available_jobs>>

\* mutant of CanSchedule: the quantum gate is ignored
CanScheduleAlways == TRUE

CanSchedule == current_time >= next_scheduling_time

\* mutant of FreeCpus: only the first free processor is offered to a round
FreeCpusFirstOnly ==
    LET free == SelectSeq(cpu_names,
                          LAMBDA c : busy_until[c] <= current_time /\ current_jobs[c] = None)
    IN  IF free = <<>> THEN free ELSE <<Head(free)>>

FreeCpus ==
    SelectSeq(cpu_names,
              LAMBDA c : busy_until[c] <= current_time /\ current_jobs[c] = None)

\* mutant of ReadyJob: a job that is running on a processor still counts as ready
ReadyJobIgnoringBusy(j) ==
    /\ remaining_time[j] > 0
    /\ arrival_time[j] <= current_time

\* mutant of ReadyJob: a job counts as ready before it has arrived
ReadyJobIgnoringArrival(j) ==
    /\ remaining_time[j] > 0
    /\ j \notin busy_jobs

ReadyJob(j) ==
    /\ remaining_time[j] > 0
    /\ arrival_time[j] <= current_time
    /\ j \notin busy_jobs

ReadyJobs == SelectSeq(job_ids, ReadyJob)

\* can_schedule, available_cpus, available_jobs; the snapshot and the sort when dispatching
Decide ==
    /\ pc = "decide"
    /\ available_cpus' = FreeCpus
    /\ IF CanSchedule /\ FreeCpus # <<>> /\ ReadyJobs # <<>>
       THEN /\ queue_snapshots' = CaptureQueueState(current_time, ReadyJobs)
            /\ available_jobs' = StrfSort(ReadyJobs)
            /\ pc' = "assign"
       ELSE /\ available_jobs' = ReadyJobs
            /\ UNCHANGED queue_snapshots
            /\ pc' = "advance"
    /\ UNCHANGED <<inputs, remaining_time, start_time, end_time, job_chunks,
                   chunk_job, chunks, remaining, busy_until, current_jobs, busy_jobs,
                   gantt_data, current_time, jobs_completed, next_scheduling_time>>

\* abs(remaining_time[selected_job]) < 0.001
NearZero(x) == Abs(x) < Eps

\* one iteration of "for cpu in available_cpus" that assigns a job
Assign ==
    /\ pc = "assign"
    /\ available_cpus # <<>>
    /\ available_jobs # <<>>
    /\ LET cpu == Head(available_cpus)
           selected_job == Head(available_jobs)
           chunk_size == Head(job_chunks[selected_job])
           left == remaining_time[selected_job] - chunk_size
       IN  /\ available_cpus' = Tail(available_cpus)
           /\ available_jobs' = Tail(available_jobs)
           /\ start_time' = IF selected_job \in DOMAIN start_time THEN start_time
                            ELSE start_time @@ (selected_job :> current_time)
           /\ job_chunks' = [job_chunks EXCEPT ![selected_job] = Tail(@)]
           /\ busy_jobs' = busy_jobs \cup {selected_job}
           /\ current_jobs' = [current_jobs EXCEPT ![cpu] = selected_job]
           /\ remaining_time' = [remaining_time EXCEPT ![selected_job] = left]
           /\ busy_until' = [busy_until EXCEPT ![cpu] = current_time + chunk_size]
           /\ gantt_data' = Append(gantt_data, <<current_time, cpu, selected_job, chunk_size>>)
           /\ IF NearZero(left)
              THEN /\ end_time' = [j \in DOMAIN end_time \cup {selected_job} |->
                                      IF j = selected_job THEN current_time + chunk_size
                                      ELSE end_time[j]]
                   /\ jobs_completed' = jobs_completed + 1
              ELSE UNCHANGED <<end_time, jobs_completed>>
    /\ UNCHANGED <<inputs, chunk_job, chunks, remaining, queue_snapshots,
                   current_time, next_scheduling_time, pc>>

\* mutant of NewSchedulingTime: the gate moves by one quantum from its old value
NewSchedulingTimeFromOld == next_scheduling_time + quantum_time

\* current_time + quantum_time
NewSchedulingTime == current_time + quantum_time

\* the for loop is over (exhausted, or break): set the next scheduling time
SetNextSchedulingTime ==
    /\ pc = "assign"
    /\ available_cpus = <<>> \/ available_jobs = <<>>
    /\ next_scheduling_time' = NewSchedulingTime
    /\ pc' = "advance"
    /\ UNCHANGED <<inputs, remaining_time, start_time, end_time, job_chunks,
                   chunk_job, chunks, remaining, busy_until, current_jobs, busy_jobs,
                   gantt_data, queue_snapshots, current_time, jobs_completed,
                   available_cpus, available_jobs>>

\* mutant of next_time_events: job arrivals are not events
next_time_events_without_arrivals ==
    {busy_until[c] : c \in {d \in Cpus : busy_until[d] > current_time}}
    \cup (IF next_scheduling_time > current_time THEN {next_scheduling_time} ELSE {})

\* mutant of next_time_events: the opening of the gate is not an event
next_time_events_without_gate ==
    {busy_until[c] : c \in {d \in Cpus : busy_until[d] > current_time}}
    \cup {arrival_time[j] : j \in {k \in Jobs : arrival_time[k] > current_time
                                               /\ remaining_time[k] > 0}}

next_time_events ==
    {busy_until[c] : c \in {d \in Cpus : busy_until[d] > current_time}}
    \cup {arrival_time[j] : j \in {k \in Jobs : arrival_time[k] > current_time
                                               /\ remaining_time[k] > 0}}
    \cup (IF next_scheduling_time > current_time THEN {next_scheduling_time} ELSE {})

\* determine the next event time and move to it, or break
AdvanceTime ==
    /\ pc = "advance"
    /\ IF next_time_events # {}
       THEN /\ current_time' = SetMin(next_time_events)
            /\ pc' = "loop"
       ELSE /\ UNCHANGED current_time
            /\ pc' = "done"
    /\ UNCHANGED <<inputs, remaining_time, start_time, end_time, job_chunks,
                   chunk_job, chunks, remaining, busy_until, current_jobs, busy_jobs,
                   gantt_data, queue_snapshots, jobs_completed,
                   next_scheduling_time, available_cpus, available_jobs>>

\* p['turnaround_time'] = p['end_time'] - p['arrival_time']
turnaround_time == [j \in DOMAIN end_time |-> end_time[j] - arrival_time[j]]

\* output results: reads start_time and end_time of every job (KeyError when one is missing)
OutputResults ==
    /\ pc = "done"
    /\ pc' = IF \A j \in Jobs : j \in DOMAIN start_time /\ j \in DOMAIN end_time
             THEN "results" ELSE "key_error"
    /\ UNCHANGED <<inputs, remaining_time, start_time, end_time, job_chunks,
                   chunk_job, chunks, remaining, busy_until, current_jobs, busy_jobs,
                   gantt_data, queue_snapshots, current_time, jobs_completed,
                   next_scheduling_time, available_cpus, available_jobs>>

Next ==
    \/ RunSimulation
    \/ ChunkStep
    \/ ChunkStore
    \/ SetupSimulation
    \/ InitialQueue
    \/ LoopTest
    \/ ReleaseCompleted
    \/ Decide
    \/ Assign
    \/ SetNextSchedulingTime
    \/ AdvanceTime
    \/ OutputResults

Spec == Init /\ [][Next]_vars

SpecAny == InitAny /\ [][Next]_vars

\* ---- vocabulary of the properties ----
InLoop == pc \in {"loop", "release", "decide", "assign", "advance", "done"}

\* the job ids a snapshot lists, in its order
SnapshotJobs(snap) == [i \in 1..Len(snap[2]) |-> snap[2][i][1]]

\* the jobs of the execution records that start at time t, in record order
DispatchedAt(t) ==
    LET recs == SelectSeq(gantt_data, LAMBDA r : r[1] = t)
    IN  [i \in 1..Len(recs) |-> recs[i][3]]

IsPrefix(s, t) == Len(s) <= Len(t) /\ \A i \in 1..Len(s) : s[i] = t[i]

\* q is ascending in (remaining_time, arrival_time)
SortedByKey(q) == \A i, k \in 1..Len(q) : i < k => ~KeyLess(q[k], q[i])

\* the times at which a dispatch round assigned a job
DispatchTimes == {gantt_data[i][1] : i \in 1..Len(gantt_data)}

\* an execution record of cpu c that started before now and is still running
MidChunk(c) ==
    \E i \in 1..Len(gantt_data) :
        /\ gantt_data[i][2] = c
        /\ gantt_data[i][3] = current_jobs[c]
        /\ gantt_data[i][1] < current_time
        /\ gantt_data[i][1] + gantt_data[i][4] > current_time

\* C1: in every state of the simulation loop the jobs held by processors are
\* pairwise distinct (no job is on two processors; a processor holds one job by
\* construction of current_jobs), busy_jobs is exactly the set of held jobs, and
\* no job waiting to be popped in a dispatch round is in busy_jobs.
C1_OneJobPerCpu ==
    InLoop =>
        /\ \A c1, c2 \in Cpus :
              (c1 # c2 /\ current_jobs[c1] # None) => current_jobs[c1] # current_jobs[c2]
        /\ busy_jobs = {current_jobs[c] : c \in Cpus} \ {None}
        /\ pc = "assign" => \A i \in 1..Len(available_jobs) : available_jobs[i] \notin busy_jobs

\* C1 witness: a dispatch round is assigning another job while some processor is
\* in the middle of a chunk of a job that still has work left.
C1_Witness ==
    /\ pc = "assign"
    /\ available_jobs # <<>>
    /\ available_cpus # <<>>
    /\ \E c \in Cpus : /\ current_jobs[c] # None
                       /\ MidChunk(c)
                       /\ remaining_time[current_jobs[c]] > 0

\* C2: for quantum_time > 0, execution records are in time order and two records
\* of different dispatch rounds are at least quantum_time apart; a dispatch round
\* runs only at current_time >= next_scheduling_time; next_scheduling_time never
\* decreases.
C2_QuantumSpacing ==
    /\ [](quantum_time > 0 =>
            /\ \A i, k \in 1..Len(gantt_data) :
                  i < k => \/ gantt_data[k][1] = gantt_data[i][1]
                           \/ gantt_data[k][1] - gantt_data[i][1] >= quantum_time
            /\ pc = "assign" => current_time >= next_scheduling_time)
    /\ [][(quantum_time > 0 => next_scheduling_time' >= next_scheduling_time)
          /\ (gantt_data' # gantt_data /\ gantt_data' # <<>>
                => current_time >= next_scheduling_time)]_vars

\* C2 witness: after a dispatch round, a processor is free and a job is ready but
\* the gate is still closed.
C2_Witness ==
    /\ pc = "decide"
    /\ gantt_data # <<>>
    /\ ~CanSchedule
    /\ FreeCpus # <<>>
    /\ ReadyJobs # <<>>

\* C3: whenever a snapshot is appended its jobs are ascending in
\* (remaining_time, arrival_time) as they stand at that instant, the dispatch
\* round uses exactly that order, and the jobs dispatched at a snapshot's time
\* are a prefix of the snapshot's order.
C3_SnapshotSorted ==
    /\ [](\A n \in 1..Len(queue_snapshots) :
            IsPrefix(DispatchedAt(queue_snapshots[n][1]), SnapshotJobs(queue_snapshots[n])))
    /\ [][Len(queue_snapshots') > Len(queue_snapshots) =>
            LET snap == queue_snapshots'[Len(queue_snapshots')]
            IN  /\ snap[1] = current_time
                /\ SortedByKey(SnapshotJobs(snap))
                /\ pc' = "assign" => available_jobs' = SnapshotJobs(snap)]_vars

\* C3 witness: a snapshot lists a later job before an earlier one and the front
\* job of that snapshot has been dispatched at the snapshot's time.
C3_Witness ==
    \E n \in 1..Len(queue_snapshots) :
        LET q == SnapshotJobs(queue_snapshots[n])
        IN  /\ Len(q) >= 2
            /\ q[1] > q[2]
            /\ DispatchedAt(queue_snapshots[n][1]) # <<>>

\* the configuration the input section of the specification calls invalid
InvalidConfig ==
    \/ chunk_unit <= 0
    \/ \E j \in Jobs : burst_time[j] <= 0 \/ arrival_time[j] < 0

\* C4: end_time is written once per job (jobs_completed counts each job with an
\* end_time once), it is written when the job's last chunk is dispatched, so that
\* it is the end of the last chunk interval, and end_time >= start_time >=
\* arrival_time.
C4_EndTimeOnce ==
    InLoop =>
        /\ jobs_completed = Cardinality(DOMAIN end_time)
        /\ \A j \in DOMAIN end_time :
              /\ job_chunks[j] = <<>>
              /\ j \in DOMAIN start_time
              /\ end_time[j] >= start_time[j]
              /\ start_time[j] >= arrival_time[j]

\* C5: when the simulation loop has ended every job's remaining_time is zero.
C5_EndsWithNoWorkLeft ==
    pc = "done" => \A j \in Jobs : remaining_time[j] = 0

\* C6: for burst_time > 0 and chunk_unit > 0 the chunk list stored for a job is
\* non-empty, every element but the last equals chunk_unit, the last is in
\* (0, chunk_unit], and the elements sum to burst_time.
C6_ChunkList ==
    pc \in {"chunk", "setup", "initial_queue"} =>
        \A j \in DOMAIN job_chunks :
            (burst_time[j] > 0 /\ chunk_unit > 0) =>
                LET c == job_chunks[j]
                IN  /\ c # <<>>
                    /\ \A i \in 1..Len(c) : c[i] > 0
                    /\ \A i \in 1..(Len(c) - 1) : c[i] = chunk_unit
                    /\ c[Len(c)] <= chunk_unit
                    /\ SeqSum(c) = burst_time[j]

\* C6 witness: a stored chunk list has full chunks followed by a smaller remainder.
C6_Witness ==
    /\ pc = "setup"
    /\ \E j \in DOMAIN job_chunks :
          /\ Len(job_chunks[j]) >= 2
          /\ job_chunks[j][Len(job_chunks[j])] < chunk_unit

\* C7: an invalid configuration is rejected before any simulation state is
\* created: the run never leaves the input state to enter the chunking loop or
\* the simulation loop.
C7_InvalidRejected ==
    InvalidConfig => pc = "input"

\* C8: no two snapshots carry the same time, and once a loop iteration has made
\* its dispatch decision there are as many snapshots as dispatch rounds.
C8_OneSnapshotPerRound ==
    /\ \A n, m \in 1..Len(queue_snapshots) :
          n # m => queue_snapshots[n][1] # queue_snapshots[m][1]
    /\ pc \in {"advance", "done"} => Len(queue_snapshots) = Cardinality(DispatchTimes)

\* the step that ends a dispatch round
EndsRound == pc = "assign" /\ pc' = "advance"

\* C9 as stated: a dispatch round moves next_scheduling_time to its previous
\* value plus quantum_time, and no other step changes it.
C9_AdvancedByQuantum ==
    [][/\ EndsRound => next_scheduling_time' = next_scheduling_time + quantum_time
       /\ ~EndsRound => next_scheduling_time' = next_scheduling_time]_vars

\* C9 amended: a dispatch round sets next_scheduling_time to current_time +
\* quantum_time, which is at least its previous value plus quantum_time, and no
\* other step changes it.
C9_SetFromCurrentTime ==
    [][/\ EndsRound => /\ next_scheduling_time' = current_time + quantum_time
                       /\ next_scheduling_time' >= next_scheduling_time + quantum_time
       /\ ~EndsRound => next_scheduling_time' = next_scheduling_time]_vars

\* C9 witness: a round at current_time has just set the gate to current_time +
\* quantum_time although the previous round was more than one quantum earlier.
C9_Witness ==
    /\ pc = "advance"
    /\ gantt_data # <<>>
    /\ gantt_data[Len(gantt_data)][1] = current_time
    /\ next_scheduling_time = current_time + quantum_time
    /\ \E t \in DispatchTimes : t + quantum_time < current_time

\* C10: a job that arrives later than quantum_time, at an instant that is not a
\* multiple of quantum_time, is not dispatched at its arrival instant.
C10_WaitsForBoundary ==
    \A j \in DOMAIN start_time :
        (arrival_time[j] > quantum_time /\ arrival_time[j] % quantum_time # 0)
            => start_time[j] # arrival_time[j]

\* the jobs of the execution records appended by this step
NewlyDispatched ==
    {gantt_data'[i][3] : i \in (Len(gantt_data) + 1)..Len(gantt_data')}

\* the jobs of the snapshots appended by this step
NewlySnapshot ==
    UNION {{queue_snapshots'[n][2][i][1] : i \in 1..Len(queue_snapshots'[n][2])} :
             n \in (Len(queue_snapshots) + 1)..Len(queue_snapshots')}

\* C11: a job whose end_time has been recorded never again gets an execution
\* record, never again appears in a snapshot and is never again in
\* available_jobs.
C11_CompletedExcluded ==
    [][InLoop =>
         \A j \in DOMAIN end_time :
             /\ j \notin NewlyDispatched
             /\ j \notin NewlySnapshot
             /\ \A i \in 1..Len(available_jobs') : available_jobs'[i] # j]_vars

\* the execution records are back to back from time 0: each starts where the
\* previous one ends
BackToBack ==
    \A i \in 1..Len(gantt_data) :
        gantt_data[i][1] = (IF i = 1 THEN 0 ELSE gantt_data[i - 1][1] + gantt_data[i - 1][4])

\* C12: with one processor and one job arriving at 0 and quantum_time <=
\* chunk_unit, when the loop has ended the records are back to back, their
\* durations are the job's chunks (summing to burst_time) and turnaround equals
\* burst_time; for burst 3, chunk_unit 1, quantum 1 (in units of Eps) these are
\* three records of duration 1 at times 0, 1, 2 and turnaround 3.
C12_SingleJobBackToBack ==
    (pc = "done" /\ num_cpus = 1 /\ num_jobs = 1 /\ arrival_time[1] = 0
        /\ quantum_time <= chunk_unit) =>
        /\ BackToBack
        /\ SeqSum([i \in 1..Len(gantt_data) |-> gantt_data[i][4]]) = burst_time[1]
        /\ 1 \in DOMAIN end_time
        /\ turnaround_time[1] = burst_time[1]
        /\ (burst_time[1] = 3 * Eps /\ chunk_unit = Eps /\ quantum_time = Eps) =>
              gantt_data = <<<<0, 1, 1, Eps>>, <<Eps, 1, 1, Eps>>, <<2 * Eps, 1, 1, Eps>>>>

\* how many actions of the program are enabled
EnabledActions ==
    LET en == <<ENABLED RunSimulation, ENABLED ChunkStep, ENABLED ChunkStore,
                ENABLED SetupSimulation, ENABLED InitialQueue, ENABLED LoopTest,
                ENABLED ReleaseCompleted, ENABLED Decide, ENABLED Assign,
                ENABLED SetNextSchedulingTime, ENABLED AdvanceTime,
                ENABLED OutputResults>>
    IN  Cardinality({i \in DOMAIN en : en[i]})

\* the (processor, job) pairs the next assignment can produce
NextAssignments ==
    {a \in Cpus \X Jobs :
        ENABLED (Assign /\ current_jobs'[a[1]] = a[2] /\ a[2] \notin busy_jobs)}

\* a job that has arrived, has work left and is on no processor
IsReady(j) ==
    /\ remaining_time[j] > 0
    /\ arrival_time[j] <= current_time
    /\ \A c \in Cpus : current_jobs[c] # j

\* a processor that holds no job and whose last chunk has ended
IsFree(c) == busy_until[c] <= current_time /\ current_jobs[c] = None

\* j comes before k in (remaining_time, arrival_time, input order)
Before(j, k) ==
    \/ remaining_time[j] < remaining_time[k]
    \/ /\ remaining_time[j] = remaining_time[k]
       /\ \/ arrival_time[j] < arrival_time[k]
          \/ arrival_time[j] = arrival_time[k] /\ j < k

\* C13: the run is deterministic: in every state at most one action is enabled
\* and an assignment can produce only one (processor, job) pair; every
\* assignment gives the lowest-numbered free processor the ready job that is
\* first in (remaining_time, arrival_time) with ties broken by input order.
C13_Deterministic ==
    /\ [](EnabledActions <= 1)
    /\ [](pc = "assign" => Cardinality(NextAssignments) <= 1)
    /\ [][(Len(gantt_data') > Len(gantt_data)) =>
            LET rec == gantt_data'[Len(gantt_data')]
            IN  /\ IsFree(rec[2])
                /\ \A c \in Cpus : IsFree(c) => rec[2] <= c
                /\ IsReady(rec[3])
                /\ \A k \in Jobs : (IsReady(k) /\ k # rec[3]) => Before(rec[3], k)]_vars

\* C13 witness: two ready jobs tied on remaining_time and arrival_time and two
\* free processors; J1 has just been given to CPU1 and J2 is next.
C13_Witness ==
    /\ pc = "assign"
    /\ num_jobs >= 2 /\ num_cpus >= 2
    /\ burst_time[1] = burst_time[2]
    /\ arrival_time[1] = arrival_time[2]
    /\ gantt_data = <<<<arrival_time[1], 1, 1, job_chunks[2][1]>>>>
    /\ available_jobs = <<2>>
    /\ available_cpus = <<2>>

\* the execution records that start at the current time
RecordsNow == SelectSeq(gantt_data, LAMBDA r : r[1] = current_time)

\* a dispatch round at the current time has just ended
RoundEnded == pc = "advance" /\ RecordsNow # <<>>

\* C14: a dispatch round dispatches min(k, m) jobs (when it ends no free
\* processor and ready job are both left), each dispatched job once and ahead
\* of every job left ready in the order of the round's start; an assignment pops
\* exactly one chunk of the selected job and changes no other job's
\* remaining_time or chunk queue; a ready job that is not selected stays ready.
C14_DispatchRound ==
    /\ [](RoundEnded =>
            /\ {c \in Cpus : IsFree(c)} = {} \/ {j \in Jobs : IsReady(j)} = {}
            /\ \A a, b \in 1..Len(RecordsNow) : a # b => RecordsNow[a][3] # RecordsNow[b][3]
            /\ \A a \in 1..Len(RecordsNow) : \A k \in Jobs :
                  IsReady(k) =>
                     LET j == RecordsNow[a][3]
                         was == remaining_time[j] + RecordsNow[a][4]
                     IN  \/ was < remaining_time[k]
                         \/ /\ was = remaining_time[k]
                            /\ \/ arrival_time[j] < arrival_time[k]
                               \/ arrival_time[j] = arrival_time[k] /\ j < k)
    /\ [][(Len(gantt_data') > Len(gantt_data)) =>
            LET rec == gantt_data'[Len(gantt_data')]
                j == rec[3]
            IN  /\ Len(gantt_data') = Len(gantt_data) + 1
                /\ rec[4] = Head(job_chunks[j])
                /\ job_chunks'[j] = Tail(job_chunks[j])
                /\ remaining_time'[j] = remaining_time[j] - rec[4]
                /\ \A k \in Jobs \ {j} : /\ remaining_time'[k] = remaining_time[k]
                                         /\ job_chunks'[k] = job_chunks[k]]_vars
    /\ [][InLoop => \A k \in Jobs :
            (IsReady(k) /\ k \notin NewlyDispatched) => IsReady(k)']_vars

\* C14 witness: a round has ended that dispatched a job and left another job
\* ready because no processor was left.
C14_Witness ==
    /\ RoundEnded
    /\ {j \in Jobs : IsReady(j)} # {}
    /\ {c \in Cpus : IsFree(c)} = {}

\* C15: while a processor is in the middle of a chunk its current job and
\* busy_until do not change, and the execution intervals of one processor, and
\* of one job, never overlap.
C15_NoPreemption ==
    /\ [](\A i, k \in 1..Len(gantt_data) :
            (i < k /\ (gantt_data[i][2] = gantt_data[k][2] \/ gantt_data[i][3] = gantt_data[k][3]))
                => gantt_data[i][1] + gantt_data[i][4] <= gantt_data[k][1])
    /\ [][InLoop => \A c \in Cpus :
            (current_jobs[c] # None /\ busy_until[c] > current_time)
                => /\ current_jobs'[c] = current_jobs[c]
                   /\ busy_until'[c] = busy_until[c]]_vars

\* C15 witness: while a processor is in the middle of a chunk, a job with less
\* remaining time than the running job is ready.
C15_Witness ==
    /\ pc = "decide"
    /\ \E c \in Cpus :
          /\ current_jobs[c] # None
          /\ MidChunk(c)
          /\ \E k \in Jobs : /\ IsReady(k)
                             /\ remaining_time[k] < remaining_time[current_jobs[c]]

\* C16: for every job whose chunks are stored, remaining_time is the sum of
\* the chunks still in its queue, is never negative, and is 0 exactly when the
\* queue is empty; remaining_time never increases.
C16_RemainingIsChunkSum ==
    /\ [](\A j \in DOMAIN job_chunks :
            /\ remaining_time[j] = SeqSum(job_chunks[j])
            /\ remaining_time[j] >= 0
            /\ remaining_time[j] = 0 <=> job_chunks[j] = <<>>)
    /\ [][\A j \in DOMAIN remaining_time : remaining_time'[j] <= remaining_time[j]]_vars

\* C16 witness: one job has used up its chunks and has no time left while
\* another is part of the way through its chunks.
C16_Witness ==
    /\ InLoop
    /\ \E j, k \in Jobs :
          /\ burst_time[j] > 0 /\ remaining_time[j] = 0 /\ job_chunks[j] = <<>>
          /\ 0 < remaining_time[k] /\ remaining_time[k] < burst_time[k]
          /\ job_chunks[k] # <<>>

\* t is a chunk completion, the arrival of a job with work left, or the gate
IsEvent(t) ==
    \/ \E c \in Cpus : busy_until[c] = t
    \/ \E j \in Jobs : arrival_time[j] = t /\ remaining_time[j] > 0
    \/ next_scheduling_time = t

\* C17: the clock changes only when the loop advances it; it then strictly
\* increases to a chunk completion, an arrival of a job with work left or the
\* gate, and none of these lies strictly between the old and the new time.
C17_ClockJumpsToNextEvent ==
    [][current_time' # current_time =>
          /\ pc = "advance"
          /\ current_time' > current_time
          /\ IsEvent(current_time')
          /\ \A t \in (current_time + 1)..(current_time' - 1) : ~IsEvent(t)]_vars

\* C17 witness: the clock has jumped over more than one tick to an arrival
\* that is neither a chunk completion nor the gate.
C17_Witness ==
    /\ pc = "loop"
    /\ current_time > 1
    /\ \E j \in Jobs : arrival_time[j] = current_time /\ remaining_time[j] > 0
    /\ \A c \in Cpus : busy_until[c] # current_time
    /\ next_scheduling_time # current_time
    /\ gantt_data # <<>>

\* some job has work left or is not yet counted as completed
Incomplete == jobs_completed < Len(processes) \/ \E j \in Jobs : remaining_time[j] > 0

\* C18: with a valid configuration, whenever the loop comes to advance the
\* clock while a job is incomplete, a future event exists, so the break branch
\* is not taken.
C18_NoStall ==
    (pc = "advance" /\ ~InvalidConfig /\ quantum_time > 0 /\ Incomplete) =>
        /\ next_time_events # {}
        /\ \/ \E c \in Cpus : busy_until[c] > current_time
           \/ \E j \in Jobs : arrival_time[j] > current_time /\ remaining_time[j] > 0
           \/ next_scheduling_time > current_time

\* C18 witness: the loop is about to advance the clock with a job incomplete
\* and the only future event is the opening of the gate.
C18_Witness ==
    /\ pc = "advance"
    /\ ~InvalidConfig
    /\ \E j \in Jobs : remaining_time[j] > 0
    /\ \A c \in Cpus : busy_until[c] <= current_time
    /\ \A j \in Jobs : arrival_time[j] <= current_time
    /\ next_scheduling_time > current_time

\* the smallest arrival time of the jobs
FirstArrival == SetMin({arrival_time[j] : j \in Jobs})

\* C19: a snapshot, when appended, is non-empty, carries the current time and
\* lists each job that is ready at that time once, and no other job; no
\* execution record starts before its job's arrival; when every job arrives
\* after 0, the first snapshot and the first record are not earlier than the
\* smallest arrival time.
C19_SnapshotIsReadySet ==
    /\ [][Len(queue_snapshots') > Len(queue_snapshots) =>
            LET snap == queue_snapshots'[Len(queue_snapshots')]
                js == SnapshotJobs(snap)
            IN  /\ Len(queue_snapshots') = Len(queue_snapshots) + 1
                /\ js # <<>>
                /\ snap[1] = current_time
                /\ {js[i] : i \in 1..Len(js)} = {j \in Jobs : IsReady(j)}
                /\ \A a, b \in 1..Len(js) : a # b => js[a] # js[b]]_vars
    /\ [](\A i \in 1..Len(gantt_data) :
            gantt_data[i][1] >= arrival_time[gantt_data[i][3]])
    /\ []((\A j \in Jobs : arrival_time[j] > 0) =>
            /\ queue_snapshots # <<>> => queue_snapshots[1][1] >= FirstArrival
            /\ gantt_data # <<>> => gantt_data[1][1] >= FirstArrival)

\* C19 witness: every job arrives after 0, and the first snapshot, taken at the
\* smallest arrival time, lists one job while the other has not arrived or is
\* on a processor.
C19_Witness ==
    /\ num_jobs = 2
    /\ \A j \in Jobs : arrival_time[j] > 0
    /\ arrival_time[1] # arrival_time[2]
    /\ gantt_data # <<>>
    /\ Len(queue_snapshots) >= 2
    /\ queue_snapshots[1][1] = FirstArrival
    /\ Len(queue_snapshots[1][2]) = 1

\* the total duration of the execution records of job j
Executed(j) ==
    LET recs == SelectSeq(gantt_data, LAMBDA r : r[3] = j)
    IN  SeqSum([i \in 1..Len(recs) |-> recs[i][4]])

\* C20: when the loop has ended every job has a start_time and an end_time (the
\* results are computed without a missing key), jobs_completed is the number of
\* jobs whose chunk queue is empty, and for every job the durations of its
\* records sum to burst_time and turnaround_time >= burst_time.
C20_OutputComplete ==
    /\ pc # "key_error"
    /\ pc \in {"done", "results"} =>
          /\ \A j \in Jobs : j \in DOMAIN start_time /\ j \in DOMAIN end_time
          /\ jobs_completed = Cardinality({j \in Jobs : job_chunks[j] = <<>>})
          /\ \A j \in Jobs : /\ Executed(j) = burst_time[j]
                             /\ turnaround_time[j] >= burst_time[j]

====
